---------------------------- MODULE Spec2Model ----------------------------
(***************************************************************************)
(* The duration codec of package mpd (src/mpd/segment.go): the Duration    *)
(* value type, its XML attribute text formatter (String, MarshalXMLAttr),  *)
(* its parser (parseDuration, UnmarshalXMLAttr) and Truncate.              *)
(*                                                                         *)
(* TLC's integers are 32 bits wide, a Duration is a 64-bit tick count.     *)
(* Numbers are therefore kept as naturals of arbitrary size, written as    *)
(* sequences of limbs in base 2^15, the least limb first, without leading  *)
(* zero limbs (<<>> is 0), and an int64/uint64 is kept as its 64-bit       *)
(* pattern, a natural below 2^64: every Go operator is computed on the     *)
(* pattern, with the wrap-around the machine has.                          *)
(*                                                                         *)
(* Text is a sequence of one-character strings; "NUL" is the byte 0.       *)
(***************************************************************************)
EXTENDS Integers, Sequences, FiniteSets, TLC

(***************************************************************************)
(* Naturals of arbitrary size. TLC evaluates on the Java stack and only    *)
(* on demand, so the operators recurse over limbs at most and look at      *)
(* their arguments first. An intermediate result that is used more than    *)
(* once is handed on as an argument.                                       *)
(***************************************************************************)
Base == 2 ^ 15

Max(S) == CHOOSE i \in S : \A j \in S : j <= i
Min(S) == CHOOSE i \in S : \A j \in S : i <= j

\* x without its leading zero limbs
Norm(x) == LET nz == {i \in 1..Len(x) : x[i] # 0}
           IN  IF nz = {} THEN <<>> ELSE SubSeq(x, 1, Max(nz))

\* the natural of a TLC integer i >= 0
N(i) == Norm(<<i % Base, (i \div Base) % Base, i \div (Base * Base)>>)

Limb(x, i) == IF i <= Len(x) THEN x[i] ELSE 0

\* x + y: the carry into limb i comes from a limb j < i whose sum overflows,
\* through limbs that pass it on
NAdd(x, y) ==
    LET n == IF Len(x) < Len(y) THEN Len(y) ELSE Len(x)
        s == [i \in 1..(n + 1) |-> Limb(x, i) + Limb(y, i)]
        c == [i \in 1..(n + 1) |->
                 IF \E j \in 1..(i - 1) :
                        s[j] >= Base /\ \A k \in (j + 1)..(i - 1) : s[k] = Base - 1
                 THEN 1 ELSE 0]
    IN  IF y = <<>> THEN x
        ELSE IF x = <<>> THEN y
        ELSE Norm([i \in 1..(n + 1) |-> (s[i] + c[i]) % Base])

\* x - y for x >= y: the borrow from limb i, likewise
NSub(x, y) ==
    LET b == [i \in 1..Len(x) |->
                 IF \E j \in 1..(i - 1) :
                        x[j] < Limb(y, j)
                        /\ \A k \in (j + 1)..(i - 1) : x[k] = Limb(y, k)
                 THEN 1 ELSE 0]
    IN  IF y = <<>> THEN x
        ELSE Norm([i \in 1..Len(x) |-> (x[i] - Limb(y, i) - b[i] + Base) % Base])

\* -1, 0, 1 as x < y, x = y, x > y (both without leading zero limbs)
NCmp(x, y) ==
    LET Top(diff) == IF diff = {} THEN 0
                     ELSE IF x[Max(diff)] < y[Max(diff)] THEN -1 ELSE 1
    IN  IF Len(x) < Len(y) THEN -1
        ELSE IF Len(x) > Len(y) THEN 1
        ELSE Top({i \in 1..Len(x) : x[i] # y[i]})

NLt(x, y) == NCmp(x, y) = -1
NLe(x, y) == NCmp(x, y) # 1

\* x * Base^n
ShiftLimbs(x, n) == IF x = <<>> THEN <<>> ELSE [i \in 1..n |-> 0] \o x

\* x * k for 0 <= k <= Base: the low and the high halves of the limb products
NMulSmall(x, k) ==
    IF x = <<>> \/ k = 0 THEN <<>>
    ELSE NAdd(Norm([i \in 1..Len(x) |-> (x[i] * k) % Base]),
              ShiftLimbs(Norm([i \in 1..Len(x) |-> (x[i] * k) \div Base]), 1))

\* x * (y without its first j - 1 limbs)
RECURSIVE MulFrom(_, _, _)
MulFrom(x, y, j) ==
    LET Sum(rest, low) == IF rest = <<>> THEN low
                          ELSE NAdd(low, ShiftLimbs(rest, 1))
    IN  IF j > Len(y) THEN <<>>
        ELSE Sum(MulFrom(x, y, j + 1), NMulSmall(x, y[j]))

NMul(x, y) == MulFrom(x, y, 1)

\* [q, r]: x \div k and x % k for 0 < k <= Base, the remainder a TLC integer
RECURSIVE DivS(_, _, _)
DivS(x, k, i) ==
    IF i > Len(x) THEN [q |-> <<>>, r |-> 0]
    ELSE LET up  == DivS(x, k, i + 1)
             cur == up.r * Base + x[i]
         IN  IF up.r = 0 /\ x[i] < k
             THEN [q |-> <<0>> \o up.q, r |-> x[i]]
             ELSE [q |-> <<cur \div k>> \o up.q, r |-> cur % k]

NDivSmall(x, k) == Norm(DivS(x, k, 1).q)
NModSmall(x, k) == DivS(x, k, 1).r

\* Long division by y of two limbs or more whose leading limb is at least
\* Base/2: the quotient limb of cur (cur < y * Base) is at most the quotient
\* of the two leading limbs of cur by the leading limb of y, and at most 2
\* less
QuotLimb(cur, y) ==
    LET t    == Len(y)
        est  == (Limb(cur, t + 1) * Base + Limb(cur, t)) \div y[t]
        qhat == IF est > Base - 1 THEN Base - 1 ELSE est
    IN  qhat - Min({k \in 0..2 : k = 2 \/ NLe(NMulSmall(y, qhat - k), cur)})

RECURSIVE LongDiv(_, _, _)
LongDiv(x, y, i) ==
    IF i > Len(x) THEN [q |-> <<>>, r |-> <<>>]
    ELSE LET up  == LongDiv(x, y, i + 1)
             cur == Norm(<<x[i]>> \o up.r)
             Step(ql) == [q |-> <<ql>> \o up.q, r |-> NSub(cur, NMulSmall(y, ql))]
         IN  IF Len(up.r) + 1 < Len(y)
             THEN [q |-> <<0>> \o up.q, r |-> cur]
             ELSE Step(QuotLimb(cur, y))

\* [q, r]: x \div y and x % y for y > 0
NDivMod(x, y) ==
    LET f  == Base \div (y[Len(y)] + 1)
        OneLimb(ds)   == [q |-> Norm(ds.q), r |-> N(ds.r)]
        ManyLimbs(ld) == [q |-> Norm(ld.q), r |-> NDivSmall(ld.r, f)]
    IN  IF Len(y) = 1 THEN OneLimb(DivS(x, y[1], 1))
        ELSE ManyLimbs(LongDiv(NMulSmall(x, f), NMulSmall(y, f), 1))

NDiv(x, y) == NDivMod(x, y).q
NMod(x, y) == NDivMod(x, y).r

Pow2(k) == [i \in 1..(k \div 15) |-> 0] \o <<2 ^ (k % 15)>>

\* x * 2^k for k >= 0
ShiftLeft(x, k) == ShiftLimbs(NMulSmall(x, 2 ^ (k % 15)), k \div 15)

\* x \div 2^k for k >= 0
ShiftRight(x, k) ==
    IF k \div 15 >= Len(x) THEN <<>>
    ELSE NDivSmall(SubSeq(x, k \div 15 + 1, Len(x)), 2 ^ (k % 15))

\* 10^k, four decimal places at a time
RECURSIVE Pow10(_)
Pow10(k) == IF k <= 4 THEN N(10 ^ k) ELSE NMulSmall(Pow10(k - 4), 10 ^ 4)

\* the number of bits of x: 0 for 0, else 1 + floor(log2 x)
BitLen(x) == IF x = <<>> THEN 0
             ELSE 15 * (Len(x) - 1) + Max({k \in 1..15 : x[Len(x)] >= 2 ^ (k - 1)})

(***************************************************************************)
(* int64 and uint64, as 64-bit patterns.                                   *)
(***************************************************************************)
Zero == <<>>
TwoTo63 == Pow2(63)
TwoTo64 == Pow2(64)
MaxInt64 == NSub(TwoTo63, N(1))
MinInt64 == TwoTo63

\* the low 64 bits of a natural
Wrap(x) == IF Len(x) < 5 THEN x
           ELSE Norm([i \in 1..5 |-> IF i = 5 THEN x[i] % 16 ELSE x[i]])

\* d < 0 for the int64 d: bit 63, which is bit 3 of limb 5
IsNeg(d) == Limb(d, 5) >= 8

\* -u in 64 bits (u = -u of String, and the unary minus of int64)
Neg64(u) == IF u = Zero THEN Zero ELSE NSub(TwoTo64, u)

\* |d| as a natural (2^63 for the least int64)
Mag(d) == IF IsNeg(d) THEN Neg64(d) ELSE d

Add64(a, b) == Wrap(NAdd(a, b))
Sub64(a, b) == Wrap(NAdd(a, Neg64(b)))
Mul64(a, b) == Wrap(NMul(a, b))

\* a % m of Go for int64 a and m > 0: the remainder has the sign of a
Rem64(a, m) ==
    LET Signed(r) == IF IsNeg(a) THEN Neg64(r) ELSE r
    IN  Signed(NMod(Mag(a), m))

(***************************************************************************)
(* The unit ladder: constants, their products exact.                       *)
(***************************************************************************)
Nanosecond  == N(1)
Microsecond == NMulSmall(Nanosecond, 1000)
Millisecond == NMulSmall(Microsecond, 1000)
Second      == NMulSmall(Millisecond, 1000)
Minute      == NMulSmall(Second, 60)
Hour        == NMulSmall(Minute, 60)

(***************************************************************************)
(* Truncate                                                                *)
(***************************************************************************)
\* Truncate with the floored remainder, 0 <= d mod m < m, in place of the
\* remainder of Go, which has the sign of d: the result is rounded down
TruncateFloor(d, m) ==
    IF IsNeg(m) \/ m = Zero THEN d
    ELSE IF IsNeg(d) /\ Rem64(d, m) # Zero
         THEN Sub64(Sub64(d, Rem64(d, m)), m)
         ELSE Sub64(d, Rem64(d, m))

Truncate(d, m) == IF IsNeg(m) \/ m = Zero THEN d ELSE Sub64(d, Rem64(d, m))

(***************************************************************************)
(* String: the text is built back to front in a buffer of 32 bytes.        *)
(* A buffer is [buf, w]: buf[i + 1] is Go's buf[i], w is Go's w.           *)
(***************************************************************************)
DigitChars == <<"0", "1", "2", "3", "4", "5", "6", "7", "8", "9">>
DigitChar(n) == DigitChars[n + 1]

BufLen == 32
NewBuf == [buf |-> [i \in 1..BufLen |-> "NUL"], w |-> BufLen]

\* w--; buf[w] = c
Put(b, c) == [buf |-> [b.buf EXCEPT ![b.w] = c], w |-> b.w - 1]

\* fmtFrac after i rounds of its loop, from buffer b and value v:
\* [b, v, print]
RECURSIVE fmtFracLoop(_, _, _)
fmtFracLoop(b, v, i) ==
    IF i = 0 THEN [b |-> b, v |-> v, print |-> FALSE]
    ELSE LET st == fmtFracLoop(b, v, i - 1)
             Round(dm) ==
                 [b     |-> IF st.print \/ dm.r # 0
                            THEN Put(st.b, DigitChar(dm.r)) ELSE st.b,
                  v     |-> Norm(dm.q),
                  print |-> st.print \/ dm.r # 0]
         IN  Round(DivS(st.v, 10, 1))

\* [b, v]: the buffer written and the value v / 10^prec
fmtFrac(b, v, prec) ==
    LET Point(st) == [b |-> (IF st.print THEN Put(st.b, ".") ELSE st.b), v |-> st.v]
    IN  Point(fmtFracLoop(b, v, prec))

\* the loop of fmtInt on the state st = [b, v]
RECURSIVE fmtIntLoop(_)
fmtIntLoop(st) ==
    LET Round(dm) == fmtIntLoop([b |-> Put(st.b, DigitChar(dm.r)), v |-> Norm(dm.q)])
    IN  IF st.v = Zero THEN st.b ELSE Round(DivS(st.v, 10, 1))

\* fmtInt without its branch for v = 0: nothing is written for 0
fmtIntNoZero(b, v) == fmtIntLoop([b |-> b, v |-> v])

fmtInt(b, v) == IF v = Zero THEN Put(b, "0") ELSE fmtIntLoop([b |-> b, v |-> v])

\* the branch of String for 0 < u < Second; prec is the zero value of int,
\* and w is decremented once more after the S
StringSubSecond(u) ==
    LET prec == 0
        Skip(b) == [b EXCEPT !.w = b.w - 1]
        Whole(f) == fmtInt(f.b, f.v)
    IN  Whole(fmtFrac(Skip(Put(NewBuf, "S")), u, prec))

\* the branch of String for u >= Second
StringSeconds(u) ==
    LET Hours(b, h) == IF h = Zero THEN b ELSE fmtInt(Put(b, "H"), h)
        MinutesOf(b, dm) == Hours(fmtInt(Put(b, "M"), N(dm.r)), Norm(dm.q))
        Minutes(b, m) == IF m = Zero THEN b ELSE MinutesOf(b, DivS(m, 60, 1))
        SecondsOf(b, dm) == Minutes(fmtInt(b, N(dm.r)), Norm(dm.q))
        Seconds(f) == SecondsOf(f.b, DivS(f.v, 60, 1))
    IN  Seconds(fmtFrac(Put(NewBuf, "S"), u, 9))

\* "PT0S" is returned from inside the sub-second branch, for u = 0
String(d) ==
    LET Render(u) == IF NLt(u, Second) THEN StringSubSecond(u) ELSE StringSeconds(u)
        Sign(b) == IF IsNeg(d) THEN Put(b, "-") ELSE b
        Text(b) == <<"P", "T">> \o SubSeq(b.buf, b.w + 1, BufLen)
    IN  IF d = Zero THEN <<"P", "T", "0", "S">> ELSE Text(Sign(Render(Mag(d))))

(***************************************************************************)
(* xmlDurationRegex: ^P(\d+D)?(?:T(\d+H)?(\d+M)?([\d.]+S)?)?$              *)
(*                                                                         *)
(* A group (C+X)? is tried where the previous one ended: the run of C is   *)
(* taken greedily and X must follow it. X is never in C, so giving back    *)
(* characters of the run cannot help, and a group that can match is never  *)
(* skipped with success: the next thing the expression accepts (another    *)
(* group's run and designator, T, or the end) is not the digit or dot the  *)
(* skipped group starts with, except for a run another group takes whole   *)
(* and ends with its own designator. The leftmost-first match of the       *)
(* expression is therefore this one left-to-right pass.                    *)
(***************************************************************************)
DigitSet == {DigitChars[i] : i \in 1..10}
SecondsSet == DigitSet \cup {"."}

\* the position after the longest run of characters of set from position p
RunEnd(str, p, set) ==
    Min({q \in p..(Len(str) + 1) : q = Len(str) + 1 \/ str[q] \notin set})

\* the position after (set+ des)? tried at p: p itself when the group is absent
GroupEnd(str, p, set, des) ==
    LET After(e) == IF e > p /\ e <= Len(str) /\ str[e] = des THEN e + 1 ELSE p
    IN  After(RunEnd(str, p, set))

\* [match, parts]: parts[i] is the text of group i, empty when it took no part.
\* p is <<the end of the day group, the start of the groups after T, the end
\* of the hour group, of the minute group, of the second group>>.
xmlDurationRegex(str) ==
    LET Result(p) ==
            IF Len(str) >= 1 /\ str[1] = "P" /\ p[5] = Len(str) + 1
            THEN [match |-> TRUE,
                  parts |-> <<SubSeq(str, 2, p[1] - 1), SubSeq(str, p[2], p[3] - 1),
                              SubSeq(str, p[3], p[4] - 1), SubSeq(str, p[4], p[5] - 1)>>]
            ELSE [match |-> FALSE, parts |-> <<>>]
        Group(p, set, des) == Append(p, GroupEnd(str, p[Len(p)], set, des))
        Time(day) ==
            IF day <= Len(str) /\ str[day] = "T"
            THEN Group(Group(Group(<<day, day + 1>>, DigitSet, "H"),
                             DigitSet, "M"), SecondsSet, "S")
            ELSE <<day, day, day, day, day>>
    IN  Result(Time(GroupEnd(str, 2, DigitSet, "D")))

\* strings.TrimRight(s, c) for a one-character cutset
TrimRight(s, c) == SubSeq(s, 1, Max({0} \cup {i \in 1..Len(s) : s[i] # c}))

\* strings.Contains(s, c) for a one-character c
Contains(s, c) == \E i \in 1..Len(s) : s[i] = c

(***************************************************************************)
(* strconv.Atoi on a run of digits (the only text the expression lets      *)
(* through): the decimal value, or a range error beyond the 64-bit int.    *)
(***************************************************************************)
DigitVal(c) == CHOOSE n \in 0..9 : DigitChars[n + 1] = c

\* the value of the digits s[lo..hi], at most four of them, a TLC integer
RECURSIVE SmallValue(_, _, _)
SmallValue(s, lo, hi) ==
    IF hi < lo THEN 0 ELSE 10 * SmallValue(s, lo, hi - 1) + DigitVal(s[hi])

\* the value of the first n characters of the digit text s, four decimal
\* places at a time
RECURSIVE DecimalValue(_, _)
DecimalValue(s, n) ==
    IF n <= 0 THEN Zero
    ELSE LET lo   == IF n > 4 THEN n - 3 ELSE 1
             prev == DecimalValue(s, lo - 1)
             Places(low) == IF prev = Zero THEN low
                            ELSE NAdd(NMulSmall(prev, 10 ^ (n - lo + 1)), low)
         IN  Places(N(SmallValue(s, lo, n)))

\* Atoi without the range check: the value in 64 bits, and no error
AtoiNoRange(s) ==
    IF s = <<>> \/ \E i \in 1..Len(s) : s[i] \notin DigitSet
    THEN [v |-> Zero, err |-> TRUE]
    ELSE [v |-> Wrap(DecimalValue(s, Len(s))), err |-> FALSE]

Atoi(s) ==
    LET Range(v) == IF NLt(MaxInt64, v) THEN [v |-> MaxInt64, err |-> TRUE]
                    ELSE [v |-> v, err |-> FALSE]
    IN  IF s = <<>> \/ \E i \in 1..Len(s) : s[i] \notin DigitSet
        THEN [v |-> Zero, err |-> TRUE]
        ELSE Range(DecimalValue(s, Len(s)))

(***************************************************************************)
(* float64: a finite non-negative value is [m, e], the number m * 2^e      *)
(* with m < 2^53 (m = <<>> is 0); inf is the overflow.                     *)
(***************************************************************************)
Scale2(x, k) == IF k <= 0 THEN x ELSE ShiftLeft(x, k)

FloatZero == [inf |-> FALSE, m |-> Zero, e |-> 0]
FloatInf  == [inf |-> TRUE, m |-> Zero, e |-> 0]

\* num/den (den > 0) rounded to the nearest float64, ties to even. The
\* quotient num / (den * 2^e) has 53 or 54 bits at e0 and 53 bits at exactly
\* one of e0 and e0 + 1: that one is the exponent, unless it is below the
\* least exponent -1074 of a float64.
RoundToFloat(num, den) ==
    LET e0 == BitLen(num) - BitLen(den) - 53
        Least(e) == IF e < -1074 THEN -1074 ELSE e
        Quot(e) == [e |-> e, qr |-> NDivMod(Scale2(num, -e), Scale2(den, e)),
                    by |-> Scale2(den, e)]
        Up(c, twor) == NLt(c.by, twor) \/ (twor = c.by /\ Limb(c.qr.q, 1) % 2 = 1)
        Result(m, e) == IF BitLen(m) + e > 1024 THEN FloatInf
                        ELSE [inf |-> FALSE, m |-> m, e |-> e]
        Round(c) == Result(IF Up(c, NAdd(c.qr.r, c.qr.r))
                           THEN NAdd(c.qr.q, N(1)) ELSE c.qr.q, c.e)
        Pick(cands) == CHOOSE c \in cands :
                           Cardinality(cands) = 1 \/ BitLen(c.qr.q) = 53
    IN  IF num = Zero THEN FloatZero
        ELSE Round(Pick({Quot(e) : e \in {Least(e0), Least(e0 + 1)}}))

\* strconv.ParseFloat(s, 64) on a text of digits and dots: digits with at
\* most one dot and at least one digit, else a syntax error; the value is
\* the nearest float64, a range error when that is infinite
ParseFloat(s) ==
    LET dots   == {i \in 1..Len(s) : s[i] = "."}
        dot    == IF dots = {} THEN Len(s) + 1 ELSE CHOOSE i \in dots : TRUE
        digits == SubSeq(s, 1, dot - 1) \o SubSeq(s, dot + 1, Len(s))
        nfrac  == IF dots = {} THEN 0 ELSE Len(s) - dot
        Range(f) == [f |-> f, err |-> f.inf]
    IN  IF Cardinality(dots) > 1 \/ digits = <<>>
           \/ \E i \in 1..Len(s) : s[i] \notin SecondsSet
        THEN [f |-> FloatZero, err |-> TRUE]
        ELSE Range(RoundToFloat(DecimalValue(digits, Len(digits)), Pow10(nfrac)))

\* x * y in float64
FloatMul(x, y) ==
    IF x.inf \/ y.inf THEN FloatInf
    ELSE RoundToFloat(Scale2(NMul(x.m, y.m), x.e + y.e),
                      Scale2(N(1), 0 - (x.e + y.e)))

\* float64(time.Second)
FloatSecond == [inf |-> FALSE, m |-> Second, e |-> 0]

\* the integer part of a finite float64, as a natural
FloatTrunc(x) == IF x.e >= 0 THEN Scale2(x.m, x.e) ELSE ShiftRight(x.m, 0 - x.e)

\* The conversion time.Duration(x) of a non-negative float64. A value that
\* does not fit int64 converts to an implementation-dependent result: the
\* least int64 on amd64, the greatest int64 on arm64.
Platforms == {"amd64", "arm64"}
FloatToInt64(x, platform) ==
    LET out == IF platform = "amd64" THEN MinInt64 ELSE MaxInt64
        Fit(t) == IF NLt(MaxInt64, t) THEN out ELSE t
    IN  IF x.inf THEN out ELSE Fit(FloatTrunc(x))

(***************************************************************************)
(* parseDuration: [dur, err], err = "nil" on success.                      *)
(***************************************************************************)
ErrTooShort == "At least one number and designator are required"
ErrNegative == "Duration cannot be negative"
ErrFormat   == "Duration must be in the format: P[nD][T[nH][nM][nS]]"
ErrDays     == "Error parsing Days"
ErrHours    == "Error parsing Hours"
ErrMinutes  == "Error parsing Minutes"
ErrSeconds  == "Error parsing Seconds"

Failure(e) == [dur |-> Zero, err |-> e]
Success(total) == [dur |-> total, err |-> "nil"]

\* A field's block of parseDuration on st, the total so far or the failure
\* of a block before it; text is the field's group, empty when it is absent.

\* total += Duration(days) * Hour * 24
AddDays(st, text) ==
    LET Add(days) == IF days.err THEN Failure(ErrDays)
                     ELSE Success(Add64(st.dur, Mul64(Mul64(days.v, Hour), N(24))))
    IN  IF st.err # "nil" \/ text = <<>> THEN st
        ELSE Add(Atoi(TrimRight(text, "D")))

\* total += Duration(hours) * Hour
AddHours(st, text) ==
    LET Add(hours) == IF hours.err THEN Failure(ErrHours)
                      ELSE Success(Add64(st.dur, Mul64(hours.v, Hour)))
    IN  IF st.err # "nil" \/ text = <<>> THEN st
        ELSE Add(Atoi(TrimRight(text, "H")))

\* the minutes block with total = in place of total +=
AddMinutesAssign(st, text) ==
    LET Add(mins) == IF mins.err THEN Failure(ErrMinutes)
                     ELSE Success(Mul64(mins.v, Minute))
    IN  IF st.err # "nil" \/ text = <<>> THEN st
        ELSE Add(Atoi(TrimRight(text, "M")))

\* total += Duration(mins) * Minute
AddMinutes(st, text) ==
    LET Add(mins) == IF mins.err THEN Failure(ErrMinutes)
                     ELSE Success(Add64(st.dur, Mul64(mins.v, Minute)))
    IN  IF st.err # "nil" \/ text = <<>> THEN st
        ELSE Add(Atoi(TrimRight(text, "M")))

\* total += Duration(secs * float64(time.Second))
AddSeconds(st, text, platform) ==
    LET Add(secs) ==
            IF secs.err THEN Failure(ErrSeconds)
            ELSE Success(Add64(st.dur,
                               FloatToInt64(FloatMul(secs.f, FloatSecond), platform)))
    IN  IF st.err # "nil" \/ text = <<>> THEN st
        ELSE Add(ParseFloat(TrimRight(text, "S")))

parseDuration(str, platform) ==
    LET Fields(parts) ==
            AddSeconds(AddMinutes(AddHours(AddDays(Success(Zero), parts[1]),
                                           parts[2]), parts[3]), parts[4], platform)
        Matched(found) ==
            IF ~found.match THEN Failure(ErrFormat) ELSE Fields(found.parts)
    IN  IF Len(str) < 3 THEN Failure(ErrTooShort)
        ELSE IF Contains(str, "-") THEN Failure(ErrNegative)
        ELSE Matched(xmlDurationRegex(str))

(***************************************************************************)
(* The values and the texts the operations are run on.                     *)
(***************************************************************************)
MaxHours == 2
MaxCount == 2
MaxLen   == 3

\* hours * Hour + minutes * Minute + seconds * Second + nanos * Nanosecond
DurOf(hours, minutes, seconds, nanos) ==
    Add64(Add64(Mul64(N(hours), Hour), Mul64(N(minutes), Minute)),
          Add64(Mul64(N(seconds), Second), Mul64(N(nanos), Nanosecond)))

Positive == {DurOf(h, m, sec, ns) : h \in 0..MaxHours, m \in {0, 1, 30},
                                    sec \in {0, 1, 2, 30, 45},
                                    ns \in {0, 1, 1000000, 500000000, 999999999}}

\* the Durations a caller builds from the unit ladder, and the two extremes
Values == UNION {{v, Neg64(v)} : v \in Positive} \cup {MaxInt64, MinInt64}

\* the units Truncate is called with
Units == {Zero, Neg64(Second), MinInt64, Nanosecond, N(7), Millisecond, Second,
          Minute, Hour, MaxInt64}

\* the value a target Duration holds before an attribute is read into it
Targets == {Zero, DurOf(0, 0, 5, 0)}

Alphabet == {"P", "T", "D", "H", "M", "S", "1", ".", "-", "Y"}

\* every text over Alphabet of MaxLen characters at most
Short == UNION {[1..n -> Alphabet] : n \in 0..MaxLen}

\* the decimal digits of a TLC integer n >= 0
RECURSIVE Decimal(_)
Decimal(n) == IF n < 10 THEN <<DigitChar(n)>>
              ELSE Decimal(n \div 10) \o <<DigitChar(n % 10)>>

Counts(des) == {<<>>} \cup {Decimal(n) \o <<des>> : n \in 1..MaxCount}

DayFields    == Counts("D") \cup {<<"1", "0", "6", "7", "5", "2", "D">>}
HourFields   == Counts("H") \cup {<<"2", "4", "H">>}
MinuteFields == Counts("M") \cup {<<"3", "0", "M">>}
SecondFields == Counts("S") \cup
    {<<"0", "S">>, <<"1", "2", ".", "5", "S">>, <<"1", ".", "0", "0", "1", "S">>,
     <<"0", ".", "0", "0", "0", "0", "0", "0", "0", "0", "1", "S">>,
     <<".", "5", "S">>, <<"1", ".", "S">>, <<".", "S">>, <<"1", ".", "2", ".", "3", "S">>}

\* P, a day field, and T with an hour, a minute and a second field, each
\* field present or not, T present or not
Fielded ==
    {<<"P">> \o dd : dd \in DayFields} \cup
    {<<"P">> \o dd \o <<"T">> \o hh \o mm \o ss :
        dd \in DayFields, hh \in HourFields, mm \in MinuteFields, ss \in SecondFields}

Literals ==
    {<<>>,
     <<"1", "H">>,
     <<"P", "-", "1", "D">>,
     <<"P", "1", "Y">>,
     <<"P", "T", "1", "M", "1", "H">>,
     <<"P", "1", "D", "T">>,
     <<"P", "T", ".", "S">>,
     <<"P", "T", "1", ".", "2", ".", "3", "S">>,
     <<"P", "3", "D", "T", "4", "H">>,
     <<"P", "T", "1", "H", "3", "0", "M">>,
     <<"P", "T", "1", "2", ".", "5", "S">>,
     <<"P", "T", "1", ".", "0", "0", "1", "S">>,
     <<"P", "1", "0", "6", "7", "5", "1", "D">>,
     <<"P", "1", "0", "6", "7", "5", "2", "D">>,
     <<"P", "2", "1", "3", "5", "0", "4", "D">>,
     <<"P", "T", "9", "2", "2", "3", "3", "7", "2", "0", "3", "7", "S">>,
     <<"P", "9", "9", "9", "9", "9", "9", "9", "9", "9", "9", "9", "9", "9", "9", "9", "9", "9", "9", "9", "9", "D">>,
     <<"P", "T", "2", "5", "6", "2", "0", "4", "7", "H", "4", "7", "M", "1", "6", ".", "8", "5", "4", "7", "7", "5", "8", "0", "7", "S">>,
     <<"P", "T", "1", ".", "0", "0", "0", "0", "0", "0", "0", "0", "0", "9", "S">>,
     <<"-", "P", "T", "1", "S">>,
     <<"P", "T", "0", "S">>}

Inputs == Short \cup {<<"P">> \o s : s \in Short} \cup Fielded \cup Literals

(***************************************************************************)
(* The state: a Duration field d of a manifest element, the text attr of   *)
(* its XML attribute, and the last call with what it returned.             *)
(*   src     the Duration attr was rendered from, when MarshalXMLAttr      *)
(*           wrote it                                                      *)
(*   call    op: the operation; prev: d before it; dur, err: what          *)
(*           parseDuration returned; m, r: Truncate's unit and result      *)
(***************************************************************************)
VARIABLES d, attr, src, call

vars == <<d, attr, src, call>>

NoCall == [op |-> "new", prev |-> Zero, dur |-> Zero, err |-> "nil",
           m |-> Zero, r |-> Zero]

External == [set |-> FALSE, val |-> Zero]

\* a Duration built by the caller, no attribute yet; or a target Duration
\* and an attribute text that came with the document
Init ==
    /\ call = NoCall
    /\ src = External
    /\ \/ d \in Values /\ attr = <<>>
       \/ d \in Targets /\ attr \in Inputs

\* MarshalXMLAttr: the attribute value is d.String(), the error nil
MarshalXMLAttr ==
    /\ attr' = String(d)
    /\ src' = [set |-> TRUE, val |-> d]
    /\ call' = [NoCall EXCEPT !.op = "MarshalXMLAttr", !.prev = d]
    /\ UNCHANGED d

\* UnmarshalXMLAttr assigning *d before it looks at the error
UnmarshalAssignFirst ==
    \E platform \in Platforms :
        \E ret \in {parseDuration(attr, platform)} :
            /\ d' = ret.dur
            /\ call' = [NoCall EXCEPT !.op = "UnmarshalXMLAttr", !.prev = d,
                                      !.dur = ret.dur, !.err = ret.err]
            /\ UNCHANGED <<attr, src>>

\* UnmarshalXMLAttr: *d is assigned only when parseDuration returns no error
UnmarshalXMLAttr ==
    \E platform \in Platforms :
        \E ret \in {parseDuration(attr, platform)} :
            /\ d' = IF ret.err # "nil" THEN d ELSE ret.dur
            /\ call' = [NoCall EXCEPT !.op = "UnmarshalXMLAttr", !.prev = d,
                                      !.dur = ret.dur, !.err = ret.err]
            /\ UNCHANGED <<attr, src>>

Next == MarshalXMLAttr \/ UnmarshalXMLAttr

Spec == Init /\ [][Next]_vars

(***************************************************************************)
(* Truncate, a pure function of d and m, on its own.                       *)
(***************************************************************************)
InitTruncate ==
    /\ d \in Values
    /\ attr = <<>>
    /\ src = External
    /\ call = NoCall

CallTruncate ==
    \E m \in Units :
        /\ call' = [NoCall EXCEPT !.op = "Truncate", !.prev = d, !.m = m,
                                  !.r = Truncate(d, m)]
        /\ UNCHANGED <<d, attr, src>>

NextTruncate == CallTruncate

SpecTruncate == InitTruncate /\ [][NextTruncate]_vars

(***************************************************************************)
(* Properties. The texts and numbers they compare with are computed here   *)
(* on their own: a text front to back from the fields of the value, a      *)
(* number exactly, without the 64-bit wrap.                                *)
(***************************************************************************)
Marshalled   == call.op = "MarshalXMLAttr"
Unmarshalled == call.op = "UnmarshalXMLAttr"
Accepted     == Unmarshalled /\ call.err = "nil"

\* a natural below 2^31 as a TLC integer
ToInt(x) == Limb(x, 1) + Limb(x, 2) * Base + Limb(x, 3) * Base * Base

\* the nine decimal places of ns nanoseconds, 0 < ns < 10^9, without the
\* trailing zeros
Fraction(ns) ==
    LET nine == [i \in 1..9 |-> DigitChar((ns \div 10 ^ (9 - i)) % 10)]
    IN  SubSeq(nine, 1, Max({i \in 1..9 : nine[i] # "0"}))

\* P T [hours H] [minutes M] [seconds [. fraction] S] of u ticks; a field
\* whose value is 0 is written when zeros says so
FieldsText(u, zeros) ==
    LET total   == NDiv(u, Second)
        ns      == ToInt(NMod(u, Second))
        hours   == ToInt(NDiv(total, N(3600)))
        rest    == ToInt(NMod(total, N(3600)))
        minutes == rest \div 60
        seconds == rest % 60
    IN  <<"P", "T">>
        \o (IF hours > 0 THEN Decimal(hours) \o <<"H">> ELSE <<>>)
        \o (IF minutes > 0 \/ zeros[1] THEN Decimal(minutes) \o <<"M">> ELSE <<>>)
        \o (IF seconds > 0 \/ ns > 0 \/ zeros[2]
            THEN Decimal(seconds)
                 \o (IF ns > 0 THEN <<".">> \o Fraction(ns) ELSE <<>>) \o <<"S">>
            ELSE <<>>)

\* C1: for every non-negative Duration d, parseDuration(d.String()) succeeds
\* and returns exactly d.
C1_RoundTrip ==
    (Unmarshalled /\ src.set /\ ~IsNeg(src.val))
        => (call.err = "nil" /\ call.dur = src.val /\ d = src.val)

\* C2: for 0 < |d| < 1 second String renders "PT0." and the nine-digit tick
\* count without its trailing zeros, then "S"; the zero duration renders as
\* "PT0S".
C2_SubSecondText ==
    (Marshalled /\ NLt(Mag(d), Second))
        => attr = IF d = Zero THEN <<"P", "T", "0", "S">>
                  ELSE <<"P", "T", "0", ".">> \o Fraction(ToInt(Mag(d))) \o <<"S">>

\* C3 as stated: for d of at least one second String writes the hours, the
\* minutes and the seconds, each only when its value is not zero, so that
\* 90 s is "PT1M30S", 3661 s is "PT1H1M1S" and 1 h 30 min is "PT1H30M".
C3_NoZeroFields ==
    (Marshalled /\ ~IsNeg(d) /\ NLe(Second, d))
        => attr = FieldsText(d, <<FALSE, FALSE>>)

\* C3 as the code has it: for d of at least one second String always writes
\* the seconds field, writes the minutes field (the minutes modulo 60, also
\* when that is 0) whenever d is at least one minute, and the hours field
\* whenever d is at least one hour: 90 s is "PT1M30S", 3661 s is "PT1H1M1S",
\* 1 h 30 min is "PT1H30M0S".
C3_SecondsText ==
    (Marshalled /\ ~IsNeg(d) /\ NLe(Second, d))
        => attr = FieldsText(d, <<NLe(Minute, d), TRUE>>)

C3_Witness ==
    /\ Marshalled
    /\ d = DurOf(1, 30, 0, 0)
    /\ attr = <<"P", "T", "1", "H", "3", "0", "M", "0", "S">>

\* C4: the text String produces contains no '-', whatever the sign of d.
C4_NoMinusSign == Marshalled => \A i \in 1..Len(attr) : attr[i] # "-"

\* C10: a Duration parseDuration returns without an error is never negative.
C10_NeverNegative == Accepted => ~IsNeg(call.dur)

\* C8: Truncate(d, m) is d for m <= 0; for m > 0 the result r is a multiple
\* of m, is zero or has the sign of d, has |r| <= |d| < |r| + m, and is left
\* as it is by another Truncate with m; Truncate(90 s, Minute) is 60 s.
C8_Truncate ==
    call.op = "Truncate" =>
        IF IsNeg(call.m) \/ call.m = Zero THEN call.r = d
        ELSE /\ NMod(Mag(call.r), call.m) = Zero
             /\ call.r = Zero \/ IsNeg(call.r) = IsNeg(d)
             /\ NLe(Mag(call.r), Mag(d))
             /\ NLt(Mag(d), NAdd(Mag(call.r), call.m))
             /\ Truncate(call.r, call.m) = call.r
             /\ (d = DurOf(0, 1, 30, 0) /\ call.m = Minute)
                    => call.r = DurOf(0, 1, 0, 0)

C8_Witness ==
    /\ call.op = "Truncate"
    /\ d = DurOf(0, 1, 30, 0)
    /\ call.m = Minute
    /\ call.r = DurOf(0, 1, 0, 0)

(***************************************************************************)
(* The grammar P[nD][T[nH][nM][nS]], stated on the text as a whole: the    *)
(* letters of the text, in their order, are P, then D or not, then T with  *)
(* H, M, S or not; every digit or dot is in a run that a designator D, H,  *)
(* M or S ends, a dot only in a run that S ends; and every designator has  *)
(* a digit or dot right before it.                                         *)
(***************************************************************************)
Designators == {"D", "H", "M", "S"}

IsLetter(c) == c \notin SecondsSet
Letters(s) == SelectSeq(s, IsLetter)

Optional(c) == {<<>>, <<c>>}

LetterOrders ==
    {<<"P">> \o dd \o tt : dd \in Optional("D"),
                           tt \in {<<>>} \cup {<<"T">> \o hh \o mm \o ss :
                                                   hh \in Optional("H"),
                                                   mm \in Optional("M"),
                                                   ss \in Optional("S")}}

\* the first position after i that holds no digit and no dot
RunStop(s, i) == Min({q \in i..(Len(s) + 1) : q = Len(s) + 1 \/ IsLetter(s[q])})

Grammar(s) ==
    /\ Letters(s) \in LetterOrders
    /\ \A i \in 1..Len(s) :
           ~IsLetter(s[i]) =>
               /\ RunStop(s, i) <= Len(s)
               /\ s[RunStop(s, i)] \in Designators
               /\ s[i] = "." => s[RunStop(s, i)] = "S"
    /\ \A i \in 1..Len(s) :
           s[i] \in Designators => (i > 1 /\ ~IsLetter(s[i - 1]))

\* T with no field after it
BareT(s) == s # <<>> /\ s[Len(s)] = "T"

\* the digits, and dots, right before the designator des of a text of the
\* grammar; empty when the text has no des
FieldText(s, des) ==
    LET at    == {i \in 1..Len(s) : s[i] = des}
        q     == CHOOSE i \in at : TRUE
        start == Max({i \in 1..q : IsLetter(s[i]) /\ i < q}) + 1
    IN  IF at = {} THEN <<>> ELSE SubSeq(s, start, q - 1)

\* the number a text of digits writes, digit by digit
RECURSIVE NumberOf(_, _)
NumberOf(s, n) ==
    IF n = 0 THEN Zero
    ELSE LET front == NumberOf(s, n - 1)
         IN  IF front = Zero THEN N(DigitVal(s[n]))
             ELSE NAdd(NMulSmall(front, 10), N(DigitVal(s[n])))

Count(s, des) == NumberOf(FieldText(s, des), Len(FieldText(s, des)))

\* a seconds text as the fraction num / 10^places
Digits(t) == SelectSeq(t, LAMBDA c : c # ".")
Places(t) == IF \E i \in 1..Len(t) : t[i] = "."
             THEN Len(t) - Min({i \in 1..Len(t) : t[i] = "."})
             ELSE 0

\* C5: parseDuration accepts only a text of the grammar in which a field
\* follows T, and answers a text with T and no field after it with the
\* format error.
C5_StrictGrammar ==
    Unmarshalled =>
        /\ call.err = "nil" => (Grammar(attr) /\ ~BareT(attr))
        /\ (Len(attr) >= 3 /\ BareT(attr)) => call.err = ErrFormat

\* C6: a text shorter than 3 characters, with a '-', or outside the grammar
\* of the expression makes parseDuration fail; whenever parseDuration
\* fails it returns the zero Duration, and UnmarshalXMLAttr leaves d as it
\* was.
C6_FailureDeliversNothing ==
    Unmarshalled =>
        /\ Len(attr) < 3 => call.err = ErrTooShort
        /\ ((\E i \in 1..Len(attr) : attr[i] = "-") \/ ~Grammar(attr))
               => call.err \in {ErrTooShort, ErrNegative, ErrFormat}
        /\ call.err # "nil" => (call.dur = Zero /\ d = call.prev)

C6_Witness ==
    /\ Unmarshalled
    /\ attr = <<"P", "T", "1", "M", "1", "H">>
    /\ call.err = ErrFormat
    /\ call.dur = Zero
    /\ call.prev = DurOf(0, 0, 5, 0)
    /\ d = call.prev

\* The ticks of the seconds text t: the nearest float64 of t, times the
\* float64 10^9, cut to an integer.
SecondsProduct(t) == FloatMul(ParseFloat(t).f, FloatSecond)
SecondsTicks(t) == IF t = <<>> THEN Zero ELSE FloatTrunc(SecondsProduct(t))

\* a is within the two roundings of float64 and the cut of the exact
\* num / den: |a * den - num| <= 2 * den + num / 2^51
Near(a, num, den) ==
    LET left == NMul(a, den)
        gap  == IF NLe(left, num) THEN NSub(num, left) ELSE NSub(left, num)
    IN  NLe(gap, NAdd(NAdd(den, den), ShiftRight(num, 51)))

\* days * 24 * Hour + hours * Hour + minutes * Minute + the ticks of the
\* seconds, exactly
FieldSum(s) ==
    NAdd(NAdd(NMul(NMul(Count(s, "D"), N(24)), Hour), NMul(Count(s, "H"), Hour)),
         NAdd(NMul(Count(s, "M"), Minute), SecondsTicks(FieldText(s, "S"))))

\* C7: for an accepted text whose fields do not overflow, parseDuration
\* returns days * 24 * Hour + hours * Hour + minutes * Minute + the seconds
\* scaled to ticks and cut to an integer, an absent field counting 0; the
\* seconds are scaled in float64, and are within its roundings of the exact
\* scaled number. "P3DT4H" is 76 hours, "PT1H30M" 5400 seconds, "PT12.5S"
\* 12500000000 ticks.
C7_FieldSum ==
    Accepted =>
        /\ (~SecondsProduct(FieldText(attr, "S")).inf /\ NLe(FieldSum(attr), MaxInt64))
               => /\ call.dur = FieldSum(attr)
                  /\ Near(SecondsTicks(FieldText(attr, "S")),
                          NMul(NumberOf(Digits(FieldText(attr, "S")),
                                        Len(Digits(FieldText(attr, "S")))), Second),
                          Pow10(Places(FieldText(attr, "S"))))
        /\ attr = <<"P", "3", "D", "T", "4", "H">> => call.dur = NMul(N(76), Hour)
        /\ attr = <<"P", "T", "1", "H", "3", "0", "M">> => call.dur = NMul(N(5400), Second)
        /\ attr = <<"P", "T", "1", "2", ".", "5", "S">>
               => call.dur = NMul(N(12500), Millisecond)

C7_Witness ==
    /\ Accepted
    /\ attr = <<"P", "1", "D", "T", "2", "H", "3", "0", "M", "1", "2", ".", "5", "S">>
    /\ call.dur = NAdd(DurOf(26, 30, 12, 0), NMul(N(500), Millisecond))
    /\ d = call.dur

\* A field's text is no number its conversion accepts: a count above the
\* greatest int64; seconds without a digit, with more than one dot, or of
\* at least 2^1024 - 2^970, which no float64 is nearest to.
BadCount(s, des) == NLt(MaxInt64, Count(s, des))
BadSeconds(t) ==
    /\ t # <<>>
    /\ \/ Digits(t) = <<>>
       \/ Len(t) - Len(Digits(t)) > 1
       \/ /\ Len(Digits(t)) - Places(t) > 308
          /\ NLe(NMul(NSub(Pow2(1024), Pow2(970)), Pow10(Places(t))),
                 NumberOf(Digits(t), Len(Digits(t))))

\* C9 as stated: parseDuration never returns one of the errors of the
\* fields.
C9_FieldErrorsUnreachable ==
    Unmarshalled => call.err \notin {ErrDays, ErrHours, ErrMinutes, ErrSeconds}

\* C9 as the code has it: on a text of at least 3 characters, without '-'
\* and of the grammar, parseDuration returns the error of the first field,
\* in the order days, hours, minutes, seconds, whose text is no number its
\* conversion accepts, and no error when every field is one.
C9_FieldErrors ==
    (Unmarshalled /\ Len(attr) >= 3 /\ Grammar(attr))
        => call.err = IF BadCount(attr, "D") THEN ErrDays
                      ELSE IF BadCount(attr, "H") THEN ErrHours
                      ELSE IF BadCount(attr, "M") THEN ErrMinutes
                      ELSE IF BadSeconds(FieldText(attr, "S")) THEN ErrSeconds
                      ELSE "nil"

C9_Witness ==
    /\ Unmarshalled
    /\ attr = <<"P", "T", ".", "S">>
    /\ call.err = ErrSeconds
    /\ call.dur = Zero

=============================================================================
